---- MODULE Spec2Model ----
(***************************************************************************)
(* hflow: a terminal task-progress reporter (src/src/lib.rs).              *)
(*                                                                         *)
(* A ProgressManager owns TaskGroups, a TaskGroup owns ExecutionUnits.     *)
(* ExecutionUnit::execute spawns a worker thread that runs the caller's    *)
(* work closure and then at most one hook, while the calling thread runs   *)
(* display_progress, joins the worker and re-checks the status.            *)
(*                                                                         *)
(* The caller's closures are opaque: each invocation is modelled by its    *)
(* net effect on the shared status cell (no write, a write of one of the   *)
(* three values, or, for a hook, std::process::exit), chosen when the      *)
(* closure runs and recorded in the history variable `ran`.                *)
(* What display_progress prints is recorded as the line counters of the    *)
(* call in progress (saturating at MaxLines, so that a loop that prints    *)
(* forever stays a loop) and as the last line printed.  The records of a   *)
(* call (`out`, `ran`) and the locals of a function are cleared when the   *)
(* call returns.                                                           *)
(***************************************************************************)
EXTENDS Integers, Sequences, FiniteSets, TLC

\* Bounds of the model.
MaxGroups == 2
\* Units in the whole manager.
MaxUnits == 2
\* Line counters saturate here.
MaxLines == 2

VARIABLES
  groups,          \* ProgressManager.groups: sequence of TaskGroup.units, each a sequence of ExecutionUnit
  worker,          \* the thread spawned by execute() for each unit, same shape as groups
  out,             \* lines printed by the call of display_progress in progress, and by its worker
  lastLine,        \* the last line display_progress printed during the call of start() in progress
  pc,              \* position of the calling thread
  total,           \* local `total` of ProgressManager::start
  idx,             \* local `idx` of ProgressManager::start (0-based)
  upos,            \* position of TaskGroup::run's iterator in units (1-based)
  current_status,  \* local of the loop body of display_progress ("none" outside of it)
  spinner,         \* position of the cycling iterator of display_progress
  ran,             \* the closures moved into the worker of the call of execute() in progress, and
                   \* the effect of each one it has invoked
  lock             \* the thread that holds the guard of the status Mutex of the unit in execution

vars == <<groups, worker, out, lastLine, pc, total, idx, upos, current_status, spinner, ran, lock>>

SPINNER_FRAMES == <<"-", "\\", "|", "/">>

ExecutionStatus == {"InProgress", "Completed", "Failed"}

\* Net effects of one invocation of a caller-supplied closure on the status
\* cell: "none" leaves its value as it was (no write, or a write of the value
\* it holds already), a status is the value it is changed to, "exit" is a call
\* of std::process::exit inside a hook.
WorkEffects == {"none", "Completed", "Failed"}
SuccessEffects == {"none", "exit", "InProgress", "Failed"}
FailureEffects == {"none", "exit", "InProgress", "Completed"}

\* *status.lock().unwrap() = e inside a closure, or no write at all.
WriteStatus(st, e) == IF e \in ExecutionStatus THEN e ELSE st

Bump(n) == IF n < MaxLines THEN n + 1 ELSE n

----------------------------------------------------------------------------
\* ExecutionUnit and its builders.

NewUnit ==
  [ status            |-> "InProgress",
    total_groups      |-> 0,
    current_group_idx |-> 0,
    execute           |-> FALSE,
    on_failure        |-> FALSE,
    on_sucess         |-> FALSE ]

set_total_groups(u, t) == [u EXCEPT !.total_groups = t]

set_group_index(u, i) == [u EXCEPT !.current_group_idx = i]

on_execute(u) == [u EXCEPT !.execute = TRUE]

on_failure(u) == [u EXCEPT !.on_failure = TRUE]

on_success(u) == [u EXCEPT !.on_sucess = TRUE]

\* new(description) followed by the builder calls the caller chose.
BuildUnit(c) ==
  LET u0 == NewUnit
      u1 == IF c[1] THEN on_execute(u0) ELSE u0
      u2 == IF c[2] THEN on_failure(u1) ELSE u1
  IN  IF c[3] THEN on_success(u2) ELSE u2

NoWorker == [pc |-> "none", final_status |-> "none", success |-> FALSE, on_fail |-> FALSE]

\* A thread that has finished: its closures and locals are dropped.
Finished == [pc |-> "done", final_status |-> "none", success |-> FALSE, on_fail |-> FALSE]

\* ok, fail: the success and failure lines printed; spin: the spinner lines
\* printed, counted modulo the number of frames; diag: the worker's line.
NoLines == [ok |-> 0, fail |-> 0, spin |-> 0, diag |-> ""]

NoLine == [g |-> 0, u |-> 0, idx |-> 0, total |-> 0, kind |-> "none", frame |-> ""]

NotRun ==
  [has_success |-> FALSE, has_on_fail |-> FALSE, work |-> "-", success |-> "-", failure |-> "-", hooks |-> 0]

UnitCount == LET RECURSIVE Sum(_)
                 Sum(i) == IF i = 0 THEN 0 ELSE Len(groups[i]) + Sum(i - 1)
             IN  Sum(Len(groups))

UnitIds == UNION {{<<g, k>> : k \in DOMAIN groups[g]} : g \in DOMAIN groups}

ProcessAlive == pc \notin {"exited", "panicked"}

Init ==
  /\ groups = <<>>
  /\ worker = <<>>
  /\ out = NoLines
  /\ lastLine = NoLine
  /\ pc = "idle"
  /\ total = 0
  /\ idx = 0
  /\ upos = 1
  /\ current_status = "none"
  /\ spinner = 0
  /\ ran = NotRun
  /\ lock = "free"

----------------------------------------------------------------------------
\* The caller builds the manager.

\* TaskGroup::new, add_unit for each unit, ProgressManager::add_group.
AddGroup(cfg) ==
  /\ pc = "idle"
  /\ Len(groups) < MaxGroups
  /\ UnitCount + Len(cfg) <= MaxUnits
  /\ groups' = Append(groups, [k \in 1..Len(cfg) |-> BuildUnit(cfg[k])])
  /\ worker' = Append(worker, [k \in 1..Len(cfg) |-> NoWorker])
  /\ UNCHANGED <<out, lastLine, pc, total, idx, upos, current_status, spinner, ran, lock>>

----------------------------------------------------------------------------
\* ProgressManager::start and TaskGroup::run.

GroupCount == Len(groups)

\* Variant: the 0-based position of enumerate() passed on as it is.
GroupIndexZeroBased(i) == i

\* (idx + 1) as i32
GroupIndex(i) == i + 1

Start ==
  /\ pc = "idle"
  /\ lastLine' = NoLine
  /\ total' = GroupCount
  /\ idx' = 0
  /\ upos' = 1
  /\ pc' = "run"
  /\ UNCHANGED <<groups, worker, out, current_status, spinner, ran, lock>>

\* The loop over groups is exhausted: start() returns.
StartReturn ==
  /\ pc = "run"
  /\ idx >= Len(groups)
  /\ pc' = "idle"
  /\ UNCHANGED <<groups, worker, out, lastLine, total, idx, upos, current_status, spinner, ran, lock>>

\* The loop over the units of a group is exhausted: run() returns, next group.
RunReturn ==
  /\ pc = "run"
  /\ idx < Len(groups)
  /\ upos > Len(groups[idx + 1])
  /\ idx' = idx + 1
  /\ upos' = 1
  /\ UNCHANGED <<groups, worker, out, lastLine, pc, total, current_status, spinner, ran, lock>>

\* let on_fail = self.on_failure.take(); let action = self.execute.take().unwrap();
\* the unit as the failed unwrap leaves it.
TakeNoWork(u) == [u EXCEPT !.on_failure = FALSE]

\* Variant: the calling thread also writes the status cell before the spawn.
TakeAllAndMark(u) ==
  [u EXCEPT !.on_failure = FALSE, !.execute = FALSE, !.on_sucess = FALSE, !.status = "Completed"]

\* The unit after the three take() calls.
TakeAll(u) == [u EXCEPT !.on_failure = FALSE, !.execute = FALSE, !.on_sucess = FALSE]

\* The thread handed to thread::spawn, with the closures moved into it.
Spawned(u) ==
  [pc |-> "action", final_status |-> "none", success |-> u.on_sucess, on_fail |-> u.on_failure]

\* Variant: the emptiness of the slot is not checked.
HasWorkUnchecked(u) == TRUE

\* self.execute.take().unwrap() panics on None.
HasWork(u) == u.execute

\* One iteration of run(): the two setters, then execute() up to the spawn.
Execute ==
  /\ pc = "run"
  /\ idx < Len(groups)
  /\ upos <= Len(groups[idx + 1])
  /\ LET g == idx + 1
         u == set_total_groups(set_group_index(groups[g][upos], GroupIndex(idx)), total)
     IN  IF HasWork(u)
         THEN /\ groups' = [groups EXCEPT ![g][upos] = TakeAll(u)]
              /\ worker' = [worker EXCEPT ![g][upos] = Spawned(u)]
              /\ ran' = [NotRun EXCEPT !.has_success = u.on_sucess, !.has_on_fail = u.on_failure]
              /\ pc' = "poll"
         ELSE /\ groups' = [groups EXCEPT ![g][upos] = TakeNoWork(u)]
              /\ pc' = "panicked"
              /\ UNCHANGED <<worker, ran>>
  /\ UNCHANGED <<out, lastLine, total, idx, upos, current_status, spinner, lock>>

----------------------------------------------------------------------------
\* display_progress, on the calling thread.

DisplayPoll ==
  /\ pc = "poll"
  /\ current_status' = groups[idx + 1][upos].status
  /\ pc' = "render"
  /\ UNCHANGED <<groups, worker, out, lastLine, total, idx, upos, spinner, ran, lock>>

Line(u, kind, frame) ==
  [g |-> idx + 1, u |-> upos, idx |-> u.current_group_idx,
   total |-> u.total_groups, kind |-> kind, frame |-> frame]

\* Variant: the iterator stops at the last frame instead of cycling.
NextFrameNoCycle(s) == IF s + 1 < Len(SPINNER_FRAMES) THEN s + 1 ELSE s

\* SPINNER_FRAMES.iter().cycle(): the position after next().
NextFrame(s) == (s + 1) % Len(SPINNER_FRAMES)

\* Variant: every arm leaves the loop.
BreaksAlways(st) == TRUE

\* Variant: the Failed arm leaves the loop as the Completed arm does.
BreaksOnTerminal(st) == st \in {"Completed", "Failed"}

\* Whether the arm of the match leaves the loop: only the Completed arm has a break.
Breaks(st) == st = "Completed"

DisplayRender ==
  /\ pc = "render"
  /\ LET g == idx + 1
         u == groups[g][upos]
     IN  CASE current_status = "InProgress" ->
                /\ out' = [out EXCEPT !.spin = (@ + 1) % Len(SPINNER_FRAMES)]
                /\ lastLine' = Line(u, "spin", SPINNER_FRAMES[spinner + 1])
           [] current_status = "Completed" ->
                /\ out' = [out EXCEPT !.ok = Bump(@)]
                /\ lastLine' = Line(u, "ok", "")
           [] current_status = "Failed" ->
                /\ out' = [out EXCEPT !.fail = Bump(@)]
                /\ lastLine' = Line(u, "fail", "")
  /\ IF Breaks(current_status)
     THEN pc' = "join" /\ spinner' = 0
     ELSE /\ pc' = "poll"
          /\ spinner' = IF current_status = "InProgress" THEN NextFrame(spinner) ELSE spinner
  /\ current_status' = "none"
  /\ UNCHANGED <<groups, worker, total, idx, upos, ran, lock>>

----------------------------------------------------------------------------
\* The rest of execute(), on the calling thread.

\* Variant: the calling thread goes on without waiting for the thread.
JoinedNoWait(w) == TRUE

\* handle.join() returns once the thread has finished.
Joined(w) == w.pc = "done"

Join ==
  /\ pc = "join"
  /\ Joined(worker[idx + 1][upos])
  /\ pc' = "check"
  /\ UNCHANGED <<groups, worker, out, lastLine, total, idx, upos, current_status, spinner, ran, lock>>

\* Variant: the value the worker read before it ran the failure hook is used again.
FinalStatusStale == IF ran.failure # "-" THEN "Failed" ELSE groups[idx + 1][upos].status

\* The status read again under the lock after the join.
FinalStatus == groups[idx + 1][upos].status

\* Variant: the process is ended on every status but Completed.
ExitsUnlessCompleted(st) == st # "Completed"

\* if final_status == ExecutionStatus::Failed { std::process::exit(1); }
ExitsOn(st) == st = "Failed"

FinalCheck ==
  /\ pc = "check"
  /\ IF ExitsOn(FinalStatus)
     THEN pc' = "exited" /\ UNCHANGED <<upos, out, ran>>
     ELSE pc' = "run" /\ upos' = upos + 1 /\ out' = NoLines /\ ran' = NotRun
  /\ UNCHANGED <<groups, worker, lastLine, total, idx, current_status, spinner, lock>>

----------------------------------------------------------------------------
\* The worker thread of unit <<g, k>>.

WorkerAction(g, k, e) ==
  /\ ProcessAlive
  /\ worker[g][k].pc = "action"
  /\ groups' = [groups EXCEPT ![g][k].status = WriteStatus(@, e)]
  /\ worker' = [worker EXCEPT ![g][k].pc = "read"]
  /\ ran' = [ran EXCEPT !.work = e]
  /\ UNCHANGED <<out, lastLine, pc, total, idx, upos, current_status, spinner, lock>>

WorkerRead(g, k) ==
  /\ ProcessAlive
  /\ worker[g][k].pc = "read"
  /\ worker' = [worker EXCEPT ![g][k].pc = "hooks", ![g][k].final_status = groups[g][k].status]
  /\ UNCHANGED <<groups, out, lastLine, pc, total, idx, upos, current_status, spinner, ran, lock>>

\* Variant: the success hook is run on every status read but Failed.
RunsSuccessUnlessFailed(w) == w.final_status # "Failed" /\ w.success

\* Which hook the two ifs after the read select.
RunsSuccess(w) == w.final_status = "Completed" /\ w.success

\* Variant: the failure hook is run whatever the status read.
RunsFailureAnyStatus(w) == w.on_fail

RunsFailure(w) == w.final_status = "Failed" /\ w.on_fail

\* A hook runs: its effect on the status cell, or the end of the process.
HookRuns(g, k, e) ==
  /\ groups' = [groups EXCEPT ![g][k].status = WriteStatus(@, e)]
  /\ pc' = IF e = "exit" THEN "exited" ELSE pc

WorkerSuccessHook(g, k, e) ==
  /\ ProcessAlive
  /\ worker[g][k].pc = "hooks"
  /\ RunsSuccess(worker[g][k])
  /\ HookRuns(g, k, e)
  /\ worker' = [worker EXCEPT ![g][k] = IF e = "exit" THEN @ ELSE Finished]
  /\ ran' = [ran EXCEPT !.success = e, !.hooks = @ + 1]
  /\ UNCHANGED <<out, lastLine, total, idx, upos, current_status, spinner, lock>>

WorkerFailureHook(g, k, e) ==
  /\ ProcessAlive
  /\ worker[g][k].pc = "hooks"
  /\ RunsFailure(worker[g][k])
  /\ HookRuns(g, k, e)
  /\ worker' = [worker EXCEPT ![g][k] = IF e = "exit" THEN @ ELSE Finished]
  /\ out' = [out EXCEPT !.diag = "tenemos fail"]
  /\ ran' = [ran EXCEPT !.failure = e, !.hooks = @ + 1]
  /\ UNCHANGED <<lastLine, total, idx, upos, current_status, spinner, lock>>

WorkerNoHook(g, k) ==
  /\ ProcessAlive
  /\ worker[g][k].pc = "hooks"
  /\ ~RunsSuccess(worker[g][k])
  /\ ~RunsFailure(worker[g][k])
  /\ worker' = [worker EXCEPT ![g][k] = Finished]
  /\ out' = [out EXCEPT !.diag = IF worker[g][k].final_status = "Failed"
                                 THEN "no tenemos fail" ELSE @]
  /\ UNCHANGED <<groups, lastLine, pc, total, idx, upos, current_status, spinner, ran, lock>>

----------------------------------------------------------------------------

\* <<on_execute called, on_failure called, on_success called>>: a unit with
\* work carries any combination of hooks, a unit without work none or both.
UnitConfigs ==
  {c \in BOOLEAN \X BOOLEAN \X BOOLEAN : c[1] \/ c[2] = c[3]}

\* The groups the caller builds hold at least one unit.
GroupConfigs(room) == UNION {[1..n -> UnitConfigs] : n \in 1..room}

Caller ==
  \/ pc = "idle" /\ \E cfg \in GroupConfigs(MaxUnits - UnitCount) : AddGroup(cfg)
  \/ Start

MainThread ==
  \/ StartReturn
  \/ RunReturn
  \/ Execute
  \/ DisplayPoll
  \/ DisplayRender
  \/ Join
  \/ FinalCheck

WorkerThread ==
  \/ \E p \in UnitIds, e \in WorkEffects : WorkerAction(p[1], p[2], e)
  \/ \E p \in UnitIds : WorkerRead(p[1], p[2])
  \/ \E p \in UnitIds, e \in SuccessEffects : WorkerSuccessHook(p[1], p[2], e)
  \/ \E p \in UnitIds, e \in FailureEffects : WorkerFailureHook(p[1], p[2], e)
  \/ \E p \in UnitIds : WorkerNoHook(p[1], p[2])

Next == Caller \/ MainThread \/ WorkerThread

Spec == Init /\ [][Next]_vars

\* Both threads are scheduled by the operating system: neither is starved.
FairSpec == Spec /\ WF_vars(MainThread) /\ WF_vars(WorkerThread)

----------------------------------------------------------------------------
\* The status Mutex.  In Spec each read of the status cell is one step, in
\* which the guard is taken, the value copied and the guard dropped.  LockSpec
\* splits each of the three reads in two steps, taking the guard and dropping
\* it at the end of the block, and lets a closure access the cell only while
\* no guard is held.  One unit is in execution at a time, so `lock` stands for
\* the Mutex of that unit.

\* Variant: the guard is bound outside the block and outlives it.
GuardKept(holder) == holder

\* { let guard = ...lock().unwrap(); *guard }: the guard is dropped at the
\* closing brace.
GuardDropped(holder) == "free"

\* let guard = self.status.lock().unwrap(); in display_progress.
DisplayLock ==
  /\ pc = "poll"
  /\ lock = "free"
  /\ lock' = "main"
  /\ pc' = "locked"
  /\ UNCHANGED <<groups, worker, out, lastLine, total, idx, upos, current_status, spinner, ran>>

\* *guard, and the end of the block.
DisplayUnlock ==
  /\ pc = "locked"
  /\ current_status' = groups[idx + 1][upos].status
  /\ lock' = GuardDropped(lock)
  /\ pc' = "render"
  /\ UNCHANGED <<groups, worker, out, lastLine, total, idx, upos, spinner, ran>>

\* let guard = self.status.lock().unwrap(); after the join.
FinalLock ==
  /\ pc = "check"
  /\ lock = "free"
  /\ lock' = "main"
  /\ pc' = "recheck"
  /\ UNCHANGED <<groups, worker, out, lastLine, total, idx, upos, current_status, spinner, ran>>

\* *guard, the end of the block, and the if that follows it.
FinalUnlock ==
  /\ pc = "recheck"
  /\ lock' = GuardDropped(lock)
  /\ IF ExitsOn(FinalStatus)
     THEN pc' = "exited" /\ UNCHANGED <<upos, out, ran>>
     ELSE pc' = "run" /\ upos' = upos + 1 /\ out' = NoLines /\ ran' = NotRun
  /\ UNCHANGED <<groups, worker, lastLine, total, idx, current_status, spinner>>

\* let guard = status_clone.lock().unwrap(); in the worker.
WorkerLock(g, k) ==
  /\ ProcessAlive
  /\ worker[g][k].pc = "read"
  /\ lock = "free"
  /\ lock' = "worker"
  /\ worker' = [worker EXCEPT ![g][k].pc = "reading"]
  /\ UNCHANGED <<groups, out, lastLine, pc, total, idx, upos, current_status, spinner, ran>>

\* *guard, and the end of the block.
WorkerUnlock(g, k) ==
  /\ ProcessAlive
  /\ worker[g][k].pc = "reading"
  /\ lock' = GuardDropped(lock)
  /\ worker' = [worker EXCEPT ![g][k].pc = "hooks", ![g][k].final_status = groups[g][k].status]
  /\ UNCHANGED <<groups, out, lastLine, pc, total, idx, upos, current_status, spinner, ran>>

\* A closure locks the cell for its access: it runs when no guard is held.
LockedWorkerAction(g, k, e) == lock = "free" /\ WorkerAction(g, k, e)

LockedSuccessHook(g, k, e) == lock = "free" /\ WorkerSuccessHook(g, k, e)

LockedFailureHook(g, k, e) == lock = "free" /\ WorkerFailureHook(g, k, e)

LockMainThread ==
  \/ StartReturn
  \/ RunReturn
  \/ Execute
  \/ DisplayLock
  \/ DisplayUnlock
  \/ DisplayRender
  \/ Join
  \/ FinalLock
  \/ FinalUnlock

LockWorkerThread ==
  \/ \E p \in UnitIds, e \in WorkEffects : LockedWorkerAction(p[1], p[2], e)
  \/ \E p \in UnitIds : WorkerLock(p[1], p[2])
  \/ \E p \in UnitIds : WorkerUnlock(p[1], p[2])
  \/ \E p \in UnitIds, e \in SuccessEffects : LockedSuccessHook(p[1], p[2], e)
  \/ \E p \in UnitIds, e \in FailureEffects : LockedFailureHook(p[1], p[2], e)
  \/ \E p \in UnitIds : WorkerNoHook(p[1], p[2])

\* The Mutex is a field of one unit and execute() is the only function that
\* touches it, after the unwrap of the work: the caller builds groups of one
\* unit that has work.
LockCaller ==
  \/ pc = "idle" /\ \E c \in {c \in UnitConfigs : c[1]} : AddGroup(<<c>>)
  \/ Start

LockNext == LockCaller \/ LockMainThread \/ LockWorkerThread

\* The display loop sleeps 100 ms between two reads and holds the guard for
\* the copy alone: a thread that waits for the Mutex is not starved.
LockSpec ==
  /\ Init
  /\ [][LockNext]_vars
  /\ WF_vars(LockMainThread)
  /\ SF_vars(LockWorkerThread)

----------------------------------------------------------------------------
\* Vocabulary of the properties.

\* execute() is in progress on the calling thread.
InCall == pc \in {"poll", "render", "join", "check"}

\* execute() is in progress, or the process was ended during it.
AtCall == InCall \/ pc = "exited"

\* display_progress is in progress.
InDisplay == pc \in {"poll", "render"}

\* The unit execute() was called on, and its thread.
Cur == groups[idx + 1][upos]

CurWorker == worker[idx + 1][upos]

Alive(p) == worker[p[1]][p[2]].pc \notin {"none", "done"}

Before(p, q) == p[1] < q[1] \/ (p[1] = q[1] /\ p[2] < q[2])

LaterUnits == {q \in UnitIds : Before(<<idx + 1, upos>>, q)}

NotStarted(p) == worker[p[1]][p[2]].pc = "none"

----------------------------------------------------------------------------
\* C1: a unit with no failure hook whose work sets the status to Failed has
\* the failure glyph line printed exactly once, and the process then ends with
\* exit(1) after the worker has finished.  Stated as what holds of every state
\* of such a call: the failure line is never printed a second time, and when
\* the process has ended the line was printed once and the worker had finished.
C1_FailedNoHookPrintsOnceAndExits ==
  (AtCall /\ ran.work = "Failed" /\ ~ran.has_on_fail) =>
     /\ out.fail <= 1
     /\ (pc = "exited" => out.fail = 1 /\ CurWorker.pc = "done")

----------------------------------------------------------------------------
\* C2: when the work sets the status to Completed and nothing changes it
\* afterwards, the display loop terminates, the success glyph line is printed
\* exactly once, no failure glyph line is printed and the on-failure hook does
\* not run.
C2_StaysCompleted == ran.work = "Completed" /\ ran.success \in {"-", "none"}

C2_CompletedRendersOnce ==
  /\ [](AtCall /\ C2_StaysCompleted =>
          /\ out.fail = 0
          /\ out.ok <= 1
          /\ ran.failure = "-"
          /\ (pc \in {"join", "check"} => out.ok = 1))
  /\ ((InCall /\ ran.work = "Completed") ~> (~InDisplay \/ ~C2_StaysCompleted))

\* The loop has ended for a unit with an on-failure hook attached whose work
\* set Completed.
C2_Witness ==
  pc = "check" /\ ran.work = "Completed" /\ ran.has_on_fail /\ ran.success = "-" /\ out.ok = 1

----------------------------------------------------------------------------
\* C3: the work sets Failed and the on-failure hook changes the status to
\* Completed.
C3_Recovered == ran.work = "Failed" /\ ran.failure = "Completed"

----------------------------------------------------------------------------
\* C4: a hook runs only after the work closure has returned, at most one hook
\* runs and at most once, and it is the one selected by the status the work
\* left (on-failure for Failed, on-success for Completed); when the calling
\* thread is past the join the worker has finished and the selected hook, if
\* attached, has run exactly once; under fair scheduling the selected hook
\* does run.
C4_FailureDue == ran.has_on_fail /\ ran.work = "Failed"

C4_SuccessDue == ran.has_success /\ ran.work = "Completed"

C4_HookOnceBeforeReturn ==
  /\ [](AtCall =>
          /\ ran.hooks <= 1
          /\ (ran.failure # "-" \/ ran.success # "-" => ran.work # "-" /\ ran.hooks = 1)
          /\ (C4_FailureDue => ran.success = "-")
          /\ (C4_SuccessDue => ran.failure = "-")
          /\ (pc = "check" => CurWorker.pc = "done")
          /\ (pc = "check" /\ C4_FailureDue => ran.failure # "-")
          /\ (pc = "check" /\ C4_SuccessDue => ran.success # "-"))
  /\ ((InCall /\ (C4_FailureDue \/ C4_SuccessDue)) ~> (ran.hooks = 1))

\* Past the join of a unit whose on-failure hook has run.
C4_Witness ==
  pc = "check" /\ C4_FailureDue /\ ran.failure # "-" /\ ran.hooks = 1 /\ CurWorker.pc = "done"

----------------------------------------------------------------------------
\* C5: at most one worker is alive, it is the worker of the unit whose
\* execute() is in progress, and a unit's worker has been started only if the
\* worker of every unit before it (in its group and in the groups before) has
\* finished.
C5_OneWorkerInOrder ==
  /\ Cardinality({p \in UnitIds : Alive(p)}) <= 1
  /\ \A p \in UnitIds : Alive(p) => AtCall /\ p = <<idx + 1, upos>>
  /\ \A p \in UnitIds : \A q \in UnitIds :
        Before(p, q) /\ ~NotStarted(q) => worker[p[1]][p[2]].pc = "done"

\* The worker of a unit of the second group runs; the first group's is done.
C5_Witness ==
  /\ InCall /\ idx + 1 = 2
  /\ CurWorker.pc = "action"
  /\ worker[1][1].pc = "done"

----------------------------------------------------------------------------
\* C6: once a unit with no failure hook has ended Failed, no later unit starts
\* its work or prints, and the output for the unit is its failure line once,
\* followed by exit(1).  The worker's diagnostic marks the case: the status it
\* read is Failed and no failure hook is attached.
C6_FailFastOneFailureLine ==
  (AtCall /\ out.diag = "no tenemos fail") =>
     /\ \A q \in LaterUnits : NotStarted(q)
     /\ (lastLine.kind # "none" => lastLine.g <= idx + 1 /\ (lastLine.g = idx + 1 => lastLine.u <= upos))
     /\ out.fail <= 1
     /\ (pc = "exited" => out.fail = 1)

----------------------------------------------------------------------------
\* C7: when the on-failure hook has run and neither ended the process nor
\* changed the status, the call stays in the display loop with the status
\* Failed: execute() does not return, the process is not ended, no later unit
\* starts, and the failure line is printed again and again.
C7_HookDidNothing == AtCall /\ ran.failure = "none"

C7_FailedForever ==
  /\ [](C7_HookDidNothing =>
          /\ InDisplay
          /\ Cur.status = "Failed"
          /\ \A q \in LaterUnits : NotStarted(q))
  /\ [][C7_HookDidNothing => C7_HookDidNothing']_vars
  /\ (C7_HookDidNothing ~> (pc = "render" /\ current_status = "Failed"))

C7_Witness ==
  C7_HookDidNothing /\ pc = "poll" /\ out.fail = MaxLines /\ CurWorker.pc = "done"

----------------------------------------------------------------------------
\* C8: execute() on a unit with no work attached (never attached, or consumed
\* by an earlier execute()) panics in that step: no worker is spawned, nothing
\* is printed, no closure runs and no status cell changes.
C8_AtUnitWithoutWork ==
  /\ pc = "run"
  /\ idx < Len(groups)
  /\ upos <= Len(groups[idx + 1])
  /\ ~groups[idx + 1][upos].execute

C8_NoWorkPanics ==
  [][C8_AtUnitWithoutWork =>
       /\ pc' = "panicked"
       /\ worker' = worker
       /\ out' = out
       /\ lastLine' = lastLine
       /\ ran' = ran
       /\ \A p \in UnitIds : groups'[p[1]][p[2]].status = groups[p[1]][p[2]].status]_vars

\* The second execute() of a unit, whose first execute() consumed the work.
C8_Witness ==
  pc = "panicked" /\ CurWorker.pc = "done" /\ Cur.status = "Completed"

----------------------------------------------------------------------------
\* C9: every line printed during start() for a unit of the i-th group carries
\* index i and the number of groups the manager held when start() was called,
\* which start() computed once; the indices printed do not decrease.
C9_LabelsCorrect ==
  /\ [](lastLine.kind # "none" =>
          /\ lastLine.idx = lastLine.g
          /\ lastLine.total = total
          /\ lastLine.total >= lastLine.idx)
  /\ [](pc # "idle" => total = Len(groups))
  /\ [][lastLine.kind # "none" /\ lastLine'.kind # "none" => lastLine'.idx >= lastLine.idx]_vars

C9_Witness ==
  lastLine.kind = "spin" /\ lastLine.idx = 2 /\ lastLine.total = 2 /\ lastLine.g = 2

----------------------------------------------------------------------------
\* C10: when the on-failure hook has changed the status away from Failed, the
\* process is not ended for that unit; when it changed it to Completed, the
\* final re-check returns and run() goes on to the next unit.
C10_HookChangedStatus == ran.failure \in {"InProgress", "Completed"}

C10_NoExitAfterRecovery ==
  /\ [](AtCall /\ C10_HookChangedStatus => pc # "exited")
  /\ [][pc = "check" /\ ran.failure = "Completed" => pc' = "run" /\ upos' = upos + 1]_vars

\* The final re-check of a recovered unit that has a unit after it.
C10_Witness ==
  pc = "check" /\ ran.failure = "Completed" /\ upos < Len(groups[idx + 1])

----------------------------------------------------------------------------
\* C11: start() returns normally once every unit of every group has been
\* executed, in insertion order, when the work of every unit sets Completed
\* and no hook changes the status or ends the process; execute() ends the
\* process with exit(1) only for a unit whose status is Failed.  Stated as:
\* a call of start() in progress leads to its return unless a call of
\* execute() departs from that premise (a unit without work, a work closure
\* that does not set Completed, a hook with an effect); start() returns only
\* when the worker of every unit has finished and every work slot is
\* consumed; the workers are started in insertion order; and the process is
\* ended, other than from inside a hook, only in the final re-check of a unit
\* whose status a closure set to Failed.
C11_Departs ==
  \/ pc = "panicked"
  \/ AtCall /\ (ran.work \in {"none", "Failed"} \/ ran.success \notin {"-", "none"} \/ ran.failure # "-")

C11_ExitInHook == ran.success = "exit" \/ ran.failure = "exit"

C11_AllCompletedReturns ==
  /\ ((pc # "idle") ~> (pc = "idle" \/ C11_Departs))
  /\ [][pc # "idle" /\ pc' = "idle" =>
          \A p \in UnitIds : worker[p[1]][p[2]].pc = "done" /\ ~groups[p[1]][p[2]].execute]_vars
  /\ [](\A p \in UnitIds : \A q \in UnitIds :
          Before(p, q) /\ worker[q[1]][q[2]].pc # "none" => worker[p[1]][p[2]].pc = "done")
  /\ [](pc = "exited" /\ ~C11_ExitInHook =>
          /\ Cur.status = "Failed"
          /\ CurWorker.pc = "done"
          /\ (ran.work = "Failed" \/ ran.success = "Failed"))

\* start() has returned from a manager of two groups whose units all ran.
C11_Witness ==
  /\ pc = "idle"
  /\ Len(groups) = 2
  /\ \A p \in UnitIds : worker[p[1]][p[2]].pc = "done" /\ groups[p[1]][p[2]].status = "Completed"

----------------------------------------------------------------------------
\* C12: the worker reads the status once, after the work closure has
\* returned, and that value alone selects the hook: the on-success hook
\* starts only when the value is Completed and the hook is attached, the
\* on-failure hook only when it is Failed and the hook is attached, and the
\* worker ends without running a hook only when neither is the case (so never
\* a hook for InProgress); at most one hook runs in a call, once, and a hook
\* that changes the status does not make the other hook run.
C12_SingleReadSelectsHook ==
  /\ [][InCall =>
          LET w  == worker[idx + 1][upos]
              w2 == worker'[idx + 1][upos]
          IN  /\ (ran.success = "-" /\ ran'.success # "-" =>
                    w.pc = "hooks" /\ w.final_status = "Completed" /\ w.success)
              /\ (ran.failure = "-" /\ ran'.failure # "-" =>
                    w.pc = "hooks" /\ w.final_status = "Failed" /\ w.on_fail)
              /\ (w.pc = "hooks" /\ w2.pc = "done" /\ ran'.hooks = ran.hooks =>
                    /\ ~(w.final_status = "Completed" /\ w.success)
                    /\ ~(w.final_status = "Failed" /\ w.on_fail))
              /\ (w.final_status # "none" /\ w2.final_status # "none" =>
                    w2.final_status = w.final_status)
              /\ (w.final_status = "none" /\ w2.final_status # "none" =>
                    ran.work # "-" /\ w2.final_status = groups[idx + 1][upos].status)]_vars
  /\ [](AtCall =>
          /\ ran.hooks <= 1
          /\ (ran.success # "-" => ran.failure = "-")
          /\ (ran.failure # "-" => ran.success = "-")
          /\ (ran.hooks = 0 <=> ran.success = "-" /\ ran.failure = "-"))

\* The on-success hook set the status to Failed, the on-failure hook is
\* attached, and the worker has finished without running it.
C12_Witness ==
  /\ InCall
  /\ ran.success = "Failed" /\ ran.has_on_fail /\ ran.failure = "-"
  /\ Cur.status = "Failed" /\ CurWorker.pc = "done"

----------------------------------------------------------------------------
\* C13: display_progress returns only from an iteration that has read a
\* terminal status (Completed or Failed): an iteration that read InProgress
\* goes on to the next iteration, whatever number of them came before, and
\* when the calling thread is past the loop a terminal status line has been
\* printed for the unit.
C13_ReturnsOnlyOnTerminal ==
  /\ [][InDisplay /\ pc' \notin {"poll", "render", "exited"} =>
          /\ pc = "render"
          /\ current_status \in {"Completed", "Failed"}
          /\ lastLine'.kind \in {"ok", "fail"}]_vars
  /\ [][pc = "render" /\ current_status = "InProgress" /\ pc' \notin {"render", "exited"} =>
          pc' = "poll" /\ lastLine'.kind = "spin"]_vars
  /\ [](pc \in {"join", "check"} => out.ok + out.fail >= 1 /\ lastLine.kind \in {"ok", "fail"})

\* The loop has returned after an iteration that read Failed and one that
\* read Completed.
C13_Witness ==
  pc = "join" /\ out.fail = 1 /\ out.ok = 1 /\ lastLine.kind = "ok"

----------------------------------------------------------------------------
\* C14: when the work closure has returned leaving the status InProgress, no
\* hook runs and nothing ends the wait: the call stays in the display loop for
\* ever, also after the worker has finished, rendering a spinner line again
\* and again and no terminal line; execute() does not return, the process
\* is not ended and no later unit is started.
C14_LeftInProgress == AtCall /\ ran.work = "none"

C14_SpinsForever ==
  /\ [](C14_LeftInProgress =>
          /\ InDisplay
          /\ Cur.status = "InProgress"
          /\ ran.hooks = 0
          /\ out.ok = 0 /\ out.fail = 0
          /\ \A q \in LaterUnits : NotStarted(q))
  /\ [][C14_LeftInProgress => C14_LeftInProgress']_vars
  /\ (C14_LeftInProgress ~> (pc = "render" /\ current_status = "InProgress"))

\* The worker has finished and the loop has printed the fourth spinner frame.
C14_Witness ==
  /\ C14_LeftInProgress /\ CurWorker.pc = "done"
  /\ pc = "poll" /\ lastLine.kind = "spin" /\ lastLine.frame = "/"

----------------------------------------------------------------------------
\* C15: the calling thread never writes a status cell: no step of start(),
\* run(), execute() or display_progress changes the status of any unit.  A
\* status changes only in a step of the unit's worker in which a caller-supplied
\* closure (the work or a hook) runs, and until the work closure has run the
\* status is InProgress, the value given at construction.
C15_CallerStep ==
  \/ pc' # pc
  \/ idx' # idx
  \/ upos' # upos
  \/ total' # total
  \/ current_status' # current_status
  \/ lastLine' # lastLine

C15_ClosureStep == ran'.work # ran.work \/ ran'.hooks = ran.hooks + 1

C15_OnlyClosuresWrite ==
  /\ [][\A p \in UnitIds :
          groups'[p[1]][p[2]].status # groups[p[1]][p[2]].status =>
             /\ worker[p[1]][p[2]].pc \in {"action", "hooks"}
             /\ InCall /\ p = <<idx + 1, upos>>
             /\ C15_ClosureStep
             /\ ~C15_CallerStep]_vars
  /\ [](\A p \in UnitIds :
          worker[p[1]][p[2]].pc \in {"none", "action"} => groups[p[1]][p[2]].status = "InProgress")

\* The calling thread is at the final re-check of a unit whose status was
\* written twice, by the work closure and by the on-success hook.
C15_Witness ==
  pc = "check" /\ ran.work = "Completed" /\ ran.success = "Failed" /\ Cur.status = "Failed"

----------------------------------------------------------------------------
\* C16: a guard of the status Mutex is held by the calling thread only
\* between taking it and copying the value (never while it renders, sleeps,
\* waits in join or runs start() and run()), and by the worker only for its one
\* read (never while a closure runs); a guard that is held is dropped again,
\* so a closure waiting for the Mutex gets to run and the display loop waiting
\* for it gets to read: the two threads do not block each other for ever.
C16_HeldByMain == lock = "main"

C16_HeldByWorker == lock = "worker"

C16_LockNotHeldAcrossSteps ==
  /\ [](C16_HeldByMain => pc \in {"locked", "recheck"})
  /\ [](C16_HeldByWorker => pc \notin {"locked", "recheck"} /\ CurWorker.pc = "reading")
  /\ [](\A p \in UnitIds : worker[p[1]][p[2]].pc = "reading" => C16_HeldByWorker)
  /\ [](pc \in {"locked", "recheck"} => C16_HeldByMain)
  /\ ((lock # "free") ~> (lock = "free" \/ ~ProcessAlive))
  /\ \A st \in {"action", "read", "hooks"} :
        (pc \in {"poll", "locked", "render"} /\ CurWorker.pc = st)
           ~> (pc \notin {"poll", "locked", "render"} \/ CurWorker.pc # st \/ ~ProcessAlive)
  /\ ((pc = "poll") ~> (pc = "locked" \/ ~ProcessAlive))

\* The worker holds the guard for its read while the display loop waits for
\* the Mutex, after the loop has held it itself.
C16_Witness ==
  C16_HeldByWorker /\ pc = "poll" /\ lastLine.kind = "spin" /\ CurWorker.pc = "reading"

----------------------------------------------------------------------------
\* C17: the calling thread is at the join or at the final re-check only after
\* the display loop has printed the unit's success glyph line, once, as its
\* last line; so whenever execute() itself has ended the process with exit(1),
\* the success line of that unit was printed before, and the status is Failed
\* because the on-success hook changed it after the work had set Completed
\* (the value the loop observed).
C17_ExitByExecute == pc = "exited" /\ ~C11_ExitInHook

----------------------------------------------------------------------------
\* C18: the k-th spinner line printed for a unit shows frame (k - 1) mod 4 of
\* the sequence dash, backslash, bar, slash: the first line of every unit
\* shows the dash, each further spinner line the next frame, and the line
\* after the slash the dash again.  The count of spinner lines starts at zero
\* for every unit; lines printed for Failed in between do not advance it.
C18_Frames == <<"-", "\\", "|", "/">>

C18_KthLineShowsFrame ==
  /\ (lastLine.kind = "spin" =>
        /\ AtCall /\ lastLine.g = idx + 1 /\ lastLine.u = upos
        /\ lastLine.frame = C18_Frames[((out.spin + 3) % 4) + 1])
  /\ (~AtCall => out.spin = 0)

\* The fourth spinner line of the second unit, after a failure line.
C18_Witness ==
  /\ lastLine.kind = "spin" /\ lastLine.frame = "/" /\ out.spin = 0
  /\ out.fail >= 1
  /\ idx + 1 = 2

----------------------------------------------------------------------------
\* C19: a call of execute() that fails because no work is attached leaves the
\* hooks of the unit as they were: the on-success and the on-failure hook that
\* were attached before the call are still attached after it.
C19_FailedCallKeepsHooks ==
  [][C8_AtUnitWithoutWork =>
       /\ pc' = "panicked"
       /\ groups'[idx + 1][upos].on_sucess = groups[idx + 1][upos].on_sucess
       /\ groups'[idx + 1][upos].on_failure = groups[idx + 1][upos].on_failure]_vars

====
